---- MODULE Spec2Model ----
(***************************************************************************)
(* One evaluation cycle of check_nuclear_events.py: main() and the         *)
(* functions it calls (get_usgs_events, get_nearest_radiation_sample,      *)
(* post_to_bsky).  The HTTP peers (USGS, Safecast, Bluesky) are the        *)
(* environment: each call draws the peer's response from a small set.      *)
(*                                                                         *)
(* Real numbers are held in tenths: 1.0 is 10, 2.0 is 20, 125.0 is 1250,   *)
(* 125.1 is 1251.                                                          *)
(*                                                                         *)
(* A Python value is a record [t, v]: t is the type tag, v the payload in  *)
(* tenths (0 when the type has none).                                      *)
(***************************************************************************)
EXTENDS Integers, Sequences, FiniteSets

\* ---------------------------------------------------------------- bounds
MaxEvents == 2
MaxMeasurements == 2

\* ------------------------------------------------------------- constants
MAG_THRESHOLD == 10
DEPTH_THRESHOLD == 20
RADIATION_SPIKE_THRESHOLD_CPM == 1250

\* ---------------------------------------------------------- Python values
None == [t |-> "None", v |-> 0]
\* a non-empty string that is not the text of a number ("Unknown", "abc")
Str == [t |-> "str", v |-> 0]
EmptyStr == [t |-> "emptystr", v |-> 0]
\* a key that the JSON object does not have
Absent == [t |-> "absent", v |-> 0]
\* a float, and a string holding the text of a float
Num(n) == [t |-> "num", v |-> n]
NumStr(n) == [t |-> "numstr", v |-> n]

\* bool(x), as `if x and ...` evaluates it
Truthy(x) ==
    CASE x.t = "None" -> FALSE
      [] x.t = "emptystr" -> FALSE
      [] x.t = "num" -> x.v # 0
      [] OTHER -> TRUE

\* isinstance(x, (int, float))
IsNumber(x) == x.t = "num"

\* float(x): the exception it raises, "none" when it converts
FloatError(x) ==
    CASE x.t \in {"num", "numstr"} -> "none"
      [] x.t = "None" -> "TypeError"
      [] OTHER -> "ValueError"

\* float(x) where it converts
Float(x) == Num(x.v)

\* ------------------------------------------------------------ input sets
\* command-line values of --simulate-lat / --simulate-lon / --simulate-radiation
SimLatValues == {None, EmptyStr, NumStr(100)}
SimLonValues == {None, NumStr(200)}
SimRadiationValues == {None, Str, NumStr(1250), NumStr(1251)}

\* GeoJSON features of the USGS feed: "properties" with or without "mag",
\* "geometry.coordinates" as [lon, lat] or [lon, lat, depth]
MagValues == {Absent, None, Num(9), Num(10)}
Locations == {<<1, 1>>, <<2, 2>>}
DepthValues == {20, 21}
Coordinates == Locations \cup {loc \o <<d>> : loc \in Locations, d \in DepthValues}
Features == [mag : MagValues, coordinates : Coordinates]
FeatureLists == UNION {[1..n -> Features] : n \in 0..MaxEvents}

\* what the USGS request comes back with
UsgsKinds == {"ok", "timeout", "error", "badjson", "notobject"}
UsgsResponses ==
    {[kind |-> "ok", features |-> fs] : fs \in FeatureLists}
    \cup {[kind |-> k, features |-> <<>>] : k \in UsgsKinds \ {"ok"}}

\* Safecast measurements
ValueValues == {Absent, Str, Num(1250), Num(1251)}
Measurements == [value : ValueValues, captured_at : BOOLEAN]
MeasurementLists == UNION {[1..n -> Measurements] : n \in 0..MaxMeasurements}
SafecastKinds == {"ok", "timeout", "error", "badjson"}
SafecastResponses ==
    {[kind |-> "ok", measurements |-> ms] : ms \in MeasurementLists}
    \cup {[kind |-> k, measurements |-> <<>>] : k \in SafecastKinds \ {"ok"}}

\* what the Bluesky login and createRecord requests come back with
BskyOutcomes == {"ok", "login_failed", "post_failed"}

VARIABLES
    simulate_lat, simulate_lon, simulate_radiation,  \* arguments of main()
    pc,               \* position in main()
    usgs_response,    \* kind of the USGS response received, "none" before
    events,           \* main(): events
    magnitude, depth, lat, lon,    \* main(): fields of latest_event
    safecast_queries, \* coordinates of the Safecast requests issued, in order
    radiation_level,  \* main(): radiation_level
    decision,         \* decision line printed: "none", "ALERT", "NO_ALERT"
    notifier,         \* outcome of the post_to_bsky call: "none", "ok", "failed"
    published,        \* record created on Bluesky: "none", "simulation", "alert"
    exc               \* exception that left main(): [type, raised_in]

vars == <<simulate_lat, simulate_lon, simulate_radiation, pc, usgs_response,
          events, magnitude, depth, lat, lon, safecast_queries,
          radiation_level, decision, notifier, published, exc>>

NoExc == [type |-> "none", raised_in |-> "none"]

Init ==
    /\ simulate_lat \in SimLatValues
    /\ simulate_lon \in SimLonValues
    /\ simulate_radiation \in SimRadiationValues
    /\ pc = "start"
    /\ usgs_response = "none"
    /\ events = <<>>
    /\ magnitude = None
    /\ depth = None
    /\ lat = 0
    /\ lon = 0
    /\ safecast_queries = <<>>
    /\ radiation_level = None
    /\ decision = "none"
    /\ notifier = "none"
    /\ published = "none"
    /\ exc = NoExc

\* an uncaught exception leaves main()
Raise(type, where) ==
    /\ pc' = "raised"
    /\ exc' = [type |-> type, raised_in |-> where]

\* ------------------------------------------------------------ main(): mode
\* the condition of `if simulate_lat and simulate_lon and simulate_radiation`
SimulationMode(a, b, c) == Truthy(a) /\ Truthy(b) /\ Truthy(c)

Main_SelectMode ==
    /\ pc = "start"
    /\ pc' = IF SimulationMode(simulate_lat, simulate_lon, simulate_radiation)
             THEN "sim_publish" ELSE "get_usgs_events"
    /\ UNCHANGED <<simulate_lat, simulate_lon, simulate_radiation, usgs_response,
                   events, magnitude, depth, lat, lon, safecast_queries,
                   radiation_level, decision, notifier, published, exc>>

\* ----------------------------------------------------------- post_to_bsky
\* bsky_login_session and create_bsky_post re-raise a failed request; a post
\* is created only when both succeed
PostToBsky(post_type, outcome, next_pc) ==
    IF outcome = "ok"
    THEN /\ notifier' = "ok"
         /\ published' = post_type
         /\ pc' = next_pc
         /\ exc' = exc
    ELSE /\ notifier' = "failed"
         /\ published' = published
         /\ Raise("HTTPError", "post_to_bsky")

\* ------------------------------------------------------ main(): simulation
\* post_to_bsky("simulation", ...) comes before the threshold comparison
Sim_Publish ==
    /\ pc = "sim_publish"
    /\ \E outcome \in BskyOutcomes : PostToBsky("simulation", outcome, "sim_decide")
    /\ UNCHANGED <<simulate_lat, simulate_lon, simulate_radiation, usgs_response,
                   events, magnitude, depth, lat, lon, safecast_queries,
                   radiation_level, decision>>

\* float(simulate_radiation) > RADIATION_SPIKE_THRESHOLD_CPM
SimExceeds(x) == Float(x).v > RADIATION_SPIKE_THRESHOLD_CPM

Sim_Decide ==
    /\ pc = "sim_decide"
    /\ IF FloatError(simulate_radiation) # "none"
       THEN /\ Raise(FloatError(simulate_radiation), "main")
            /\ decision' = decision
       ELSE /\ decision' = IF SimExceeds(simulate_radiation) THEN "ALERT" ELSE "NO_ALERT"
            /\ pc' = "returned"
            /\ exc' = exc
    /\ UNCHANGED <<simulate_lat, simulate_lon, simulate_radiation, usgs_response,
                   events, magnitude, depth, lat, lon, safecast_queries,
                   radiation_level, notifier, published>>

\* --------------------------------------------------------- get_usgs_events
\* the exception that leaves get_usgs_events: Timeout, RequestException and
\* the JSON decode error (a RequestException) are caught; .get on a decoded
\* payload that is not an object is not
UsgsError(resp) == IF resp.kind = "notobject" THEN "AttributeError" ELSE "none"

\* the list get_usgs_events returns
UsgsEvents(resp) == IF resp.kind = "ok" THEN resp.features ELSE <<>>

GetUsgsEvents ==
    /\ pc = "get_usgs_events"
    /\ \E resp \in UsgsResponses :
         /\ usgs_response' = resp.kind
         /\ IF UsgsError(resp) # "none"
            THEN /\ Raise(UsgsError(resp), "get_usgs_events")
                 /\ events' = events
            ELSE /\ events' = UsgsEvents(resp)
                 /\ pc' = "check_events"
                 /\ exc' = exc
    /\ UNCHANGED <<simulate_lat, simulate_lon, simulate_radiation,
                   magnitude, depth, lat, lon, safecast_queries,
                   radiation_level, decision, notifier, published>>

\* ------------------------------------------- main(): the event considered
\* the slip `if events is None`: an empty list is not None
NoEvents_IsNone(ev) == FALSE

\* `not events`
NoEvents(ev) == Len(ev) = 0

\* props.get("mag", "Unknown")
GetMag(feature) == IF feature.mag = Absent THEN Str ELSE feature.mag

\* geo[2] if len(geo) > 2 else "Unknown"
GetDepth(geo) == IF Len(geo) > 2 THEN Num(geo[3]) ELSE Str

\* `if not events: return`, then the fields of events[0]
Main_CheckEvents ==
    /\ pc = "check_events"
    /\ IF NoEvents(events)
       THEN /\ decision' = "NO_ALERT"
            /\ pc' = "returned"
            /\ UNCHANGED <<magnitude, depth, lat, lon, exc>>
       ELSE IF Len(events) = 0
       THEN /\ Raise("IndexError", "main")
            /\ UNCHANGED <<magnitude, depth, lat, lon, decision>>
       ELSE /\ magnitude' = GetMag(events[1])
            /\ depth' = GetDepth(events[1].coordinates)
            /\ lat' = events[1].coordinates[2]
            /\ lon' = events[1].coordinates[1]
            /\ pc' = "get_radiation"
            /\ UNCHANGED <<decision, exc>>
    /\ UNCHANGED <<simulate_lat, simulate_lon, simulate_radiation, usgs_response,
                   events, safecast_queries, radiation_level, notifier, published>>

\* -------------------------------------------- get_nearest_radiation_sample
\* float('inf'), the key of a measurement without "value"
Inf == 1000000

\* key=lambda x: x.get("value", float('inf')), for the numeric comparison
MinKey(m) == IF m.value = Absent THEN Inf ELSE m.value.v

\* min() compares a str key with a float key as soon as both occur
MixedKeys(ms) ==
    /\ \E i \in 1..Len(ms) : ms[i].value.t = "str"
    /\ \E i \in 1..Len(ms) : ms[i].value.t # "str"

\* min(data["measurements"], key=...): the first measurement of least key
\* (the str keys of the model are one and the same string)
NearestSample(ms) ==
    LET i == CHOOSE k \in 1..Len(ms) :
                 /\ \A j \in 1..Len(ms) : MinKey(ms[k]) <= MinKey(ms[j])
                 /\ \A j \in 1..(k - 1) : MinKey(ms[j]) > MinKey(ms[k])
    IN  ms[i]

\* the exception that leaves get_nearest_radiation_sample, "none" when it
\* returns: JSONDecodeError, Timeout and RequestException are caught, the
\* errors of min(), float() and the subscripts are not
SampleError(resp) ==
    IF resp.kind # "ok" \/ Len(resp.measurements) = 0 THEN "none"
    ELSE IF MixedKeys(resp.measurements) THEN "TypeError"
    ELSE LET s == NearestSample(resp.measurements)
         IN  IF s.value = Absent THEN "KeyError"
             ELSE IF FloatError(s.value) # "none" THEN FloatError(s.value)
             ELSE IF ~s.captured_at THEN "KeyError"
             ELSE "none"

\* radiation_value of the tuple get_nearest_radiation_sample returns
SampleValue(resp) ==
    IF resp.kind # "ok" \/ Len(resp.measurements) = 0 THEN None
    ELSE Float(NearestSample(resp.measurements).value)

\* what get_nearest_radiation_sample does with a response: the exception it
\* lets through, or the radiation_value it returns
SampleResult(resp) ==
    [error |-> SampleError(resp),
     value |-> IF SampleError(resp) = "none" THEN SampleValue(resp) ELSE None]

\* the results over every response Safecast can give
SampleResults == {SampleResult(resp) : resp \in SafecastResponses}

\* main() calls get_nearest_radiation_sample(lat, lon) before it looks at
\* the magnitude and the depth
GetNearestRadiationSample ==
    /\ pc = "get_radiation"
    /\ safecast_queries' = Append(safecast_queries, <<lat, lon>>)
    /\ \E res \in SampleResults :
         IF res.error # "none"
         THEN /\ Raise(res.error, "get_nearest_radiation_sample")
              /\ radiation_level' = radiation_level
         ELSE /\ radiation_level' = res.value
              /\ pc' = "evaluate"
              /\ exc' = exc
    /\ UNCHANGED <<simulate_lat, simulate_lon, simulate_radiation, usgs_response,
                   events, magnitude, depth, lat, lon, decision, notifier, published>>

\* ------------------------------------------------------ main(): the checks
\* isinstance(magnitude, (int, float)) and magnitude >= MAG_THRESHOLD
MagnitudePasses(m) == IsNumber(m) /\ m.v >= MAG_THRESHOLD

\* depth <= DEPTH_THRESHOLD raises TypeError when depth is the string "Unknown"
DepthError(d) == IF IsNumber(d) THEN "none" ELSE "TypeError"

\* depth <= DEPTH_THRESHOLD
DepthPasses(d) == d.v <= DEPTH_THRESHOLD

\* radiation_level and radiation_level > RADIATION_SPIKE_THRESHOLD_CPM
RadiationSpike(r) == Truthy(r) /\ r.v > RADIATION_SPIKE_THRESHOLD_CPM

\* the `and` chain evaluates left to right and stops at the first false operand
Main_Evaluate ==
    /\ pc = "evaluate"
    /\ IF ~MagnitudePasses(magnitude)
       THEN /\ decision' = "NO_ALERT"
            /\ pc' = "returned"
            /\ exc' = exc
       ELSE IF DepthError(depth) # "none"
       THEN /\ Raise(DepthError(depth), "main")
            /\ decision' = decision
       ELSE IF DepthPasses(depth) /\ RadiationSpike(radiation_level)
       THEN /\ decision' = "ALERT"
            /\ pc' = "alert_publish"
            /\ exc' = exc
       ELSE /\ decision' = "NO_ALERT"
            /\ pc' = "returned"
            /\ exc' = exc
    /\ UNCHANGED <<simulate_lat, simulate_lon, simulate_radiation, usgs_response,
                   events, magnitude, depth, lat, lon, safecast_queries,
                   radiation_level, notifier, published>>

\* post_to_bsky("alert", ...) comes after the [ALERT] lines
Alert_Publish ==
    /\ pc = "alert_publish"
    /\ \E outcome \in BskyOutcomes : PostToBsky("alert", outcome, "returned")
    /\ UNCHANGED <<simulate_lat, simulate_lon, simulate_radiation, usgs_response,
                   events, magnitude, depth, lat, lon, safecast_queries,
                   radiation_level, decision>>

Next ==
    \/ Main_SelectMode
    \/ Sim_Publish
    \/ Sim_Decide
    \/ GetUsgsEvents
    \/ Main_CheckEvents
    \/ GetNearestRadiationSample
    \/ Main_Evaluate
    \/ Alert_Publish

Spec == Init /\ [][Next]_vars

\* ------------------------------------------------------------------ types
TypeOK ==
    /\ pc \in {"start", "sim_publish", "sim_decide", "get_usgs_events",
               "check_events", "get_radiation", "evaluate", "alert_publish",
               "returned", "raised"}
    /\ decision \in {"none", "ALERT", "NO_ALERT"}
    /\ notifier \in {"none", "ok", "failed"}
    /\ published \in {"none", "simulation", "alert"}
    /\ Len(events) <= MaxEvents
    /\ Len(safecast_queries) <= 1

\* ------------------------------------------------------- state functions
Finished == pc \in {"returned", "raised"}

\* the cycle took the simulation branch / the live branch of main()
InSimulation == pc \in {"sim_publish", "sim_decide"}
                \/ (Finished /\ usgs_response = "none")
InLive == pc \notin {"start", "sim_publish", "sim_decide"} /\ ~InSimulation

\* get_usgs_events has returned a list to main()
UsgsReturned == usgs_response # "none" /\ exc.raised_in # "get_usgs_events"

\* get_nearest_radiation_sample has returned a tuple to main()
LookupReturned == safecast_queries # <<>> /\ pc # "get_radiation"
                  /\ exc.raised_in # "get_nearest_radiation_sample"

HasEvent == Len(events) > 0
FirstMag == events[1].mag
FirstGeo == events[1].coordinates
FirstDepthAbsent == Len(FirstGeo) <= 2
FirstMagOk == FirstMag.t = "num" /\ FirstMag.v >= MAG_THRESHOLD
FirstDepthOk == Len(FirstGeo) > 2 /\ FirstGeo[3] <= DEPTH_THRESHOLD
FirstDepthTooDeep == Len(FirstGeo) > 2 /\ FirstGeo[3] > DEPTH_THRESHOLD

EndsNoAlert ==
    /\ pc # "raised"
    /\ decision # "ALERT"
    /\ pc = "returned" => decision = "NO_ALERT"
    /\ notifier = "none"
    /\ published = "none"

\* ----------------------------------------------------------------- claims

\* C1: in live mode, an event without depth (no third coordinate) ends the
\* cycle with NO_ALERT and nothing published, whatever its magnitude and the
\* radiation sample; the depth check raises no error on the "Unknown"
\* sentinel.  Stated for the cycles whose radiation lookup returned.
C1_DepthAbsentNoAlert ==
    (HasEvent /\ FirstDepthAbsent /\ LookupReturned) => EndsNoAlert

\* C2: a failure of the Notifier (Bluesky login or post) never makes main()
\* raise and never suppresses the decision line: once the call has failed,
\* main() returns normally with [ALERT] or [INFO] reported.
C2_PublishFailureAbsorbed ==
    notifier = "failed" =>
        /\ pc # "raised"
        /\ Finished => decision # "none"

\* C3: for every response of the radiation feed, a record without "value" or
\* "captured_at" and a non-numeric value included, no exception leaves
\* get_nearest_radiation_sample, and the cycle ends in NO_ALERT when the
\* adapter has no value to give.
C3_LookupAbsorbsMalformed ==
    /\ exc.raised_in # "get_nearest_radiation_sample"
    /\ (LookupReturned /\ radiation_level = None) => EndsNoAlert

\* C4: mode selection is exclusive: with all three simulated inputs given,
\* main() takes the simulation path and queries neither feed; with one of
\* them missing it takes the live path, without an error, and queries the
\* seismic feed.
C4_ModeExclusive ==
    LET given == /\ simulate_lat # None
                 /\ simulate_lon # None
                 /\ simulate_radiation # None
    IN  /\ given => (usgs_response = "none" /\ safecast_queries = <<>> /\ ~InLive)
        /\ (~given /\ pc # "start") =>
              /\ InLive
              /\ pc # "get_usgs_events" => usgs_response # "none"

\* C5: the radiation comparison is strict and absence is no spike: a live
\* event that passes the magnitude and depth checks, and a simulated
\* radiation value, end in ALERT exactly when the radiation value is there
\* and greater than 125; equal, below, missing or failed lookup end in
\* NO_ALERT.
C5_StrictRadiation ==
    /\ (InLive /\ Finished /\ HasEvent /\ FirstMagOk /\ FirstDepthOk) =>
          decision = IF radiation_level.t = "num"
                        /\ radiation_level.v > RADIATION_SPIKE_THRESHOLD_CPM
                     THEN "ALERT" ELSE "NO_ALERT"
    /\ (InSimulation /\ Finished /\ simulate_radiation.t = "numstr") =>
          decision = IF simulate_radiation.v > RADIATION_SPIKE_THRESHOLD_CPM
                     THEN "ALERT" ELSE "NO_ALERT"

\* C6: in live mode, an event whose magnitude is not a number or is below 1.0
\* ends in NO_ALERT with nothing published, whatever its depth and the
\* radiation at its location; a magnitude of exactly 1.0 passes the check.
C6_LowMagnitudeNoAlert ==
    /\ (HasEvent /\ Finished /\ ~FirstMagOk) => (pc = "returned" /\ EndsNoAlert)
    /\ (HasEvent /\ FirstMag = Num(MAG_THRESHOLD) /\ FirstDepthOk
        /\ LookupReturned /\ RadiationSpike(radiation_level) /\ pc # "evaluate")
          => decision = "ALERT"

\* C7: in live mode, an event whose numeric depth is above 2.0 ends in
\* NO_ALERT with nothing published, whatever its magnitude and the radiation
\* value; a depth of exactly 2.0 passes the check.
C7_DeepNoAlert ==
    /\ (HasEvent /\ Finished /\ FirstDepthTooDeep) => (pc = "returned" /\ EndsNoAlert)
    /\ (HasEvent /\ FirstMagOk /\ Len(FirstGeo) > 2 /\ FirstGeo[3] = DEPTH_THRESHOLD
        /\ LookupReturned /\ RadiationSpike(radiation_level) /\ pc # "evaluate")
          => decision = "ALERT"

\* C8: in live mode, when get_usgs_events gives main() an empty list (no
\* features, or a failure normalised to []), the cycle ends in NO_ALERT, the
\* radiation feed is never queried and nothing is published.
C8_NoEventsNoAlert ==
    (UsgsReturned /\ ~HasEvent) =>
        /\ pc \in {"check_events", "returned"}
        /\ pc = "returned" <=> decision = "NO_ALERT"
        /\ decision # "ALERT"
        /\ safecast_queries = <<>>
        /\ notifier = "none"
        /\ published = "none"

\* a cycle that ended in NO_ALERT after the seismic request timed out
C8_Witness ==
    /\ usgs_response = "timeout"
    /\ events = <<>>
    /\ pc = "returned"
    /\ decision = "NO_ALERT"
    /\ safecast_queries = <<>>

\* C9: the radiation lookup is issued only after the event has passed the
\* magnitude and the depth checks: when the event fails one of them, no
\* radiation query is issued and the decision is NO_ALERT.
C9_LookupAfterChecks ==
    (HasEvent /\ (~FirstMagOk \/ ~FirstDepthOk)) =>
        /\ safecast_queries = <<>>
        /\ Finished => (pc = "returned" /\ decision = "NO_ALERT")

\* a later event of the feed passes the magnitude and the depth checks
LaterEventQualifies ==
    \E i \in 2..Len(events) :
        /\ events[i].mag.t = "num" /\ events[i].mag.v >= MAG_THRESHOLD
        /\ Len(events[i].coordinates) > 2
        /\ events[i].coordinates[3] <= DEPTH_THRESHOLD

\* C10: a live cycle considers the first event of the feed only: the one
\* radiation query carries its coordinates, and a cycle whose first event
\* fails a check ends in NO_ALERT even when a later event and its radiation
\* would qualify.  Stated for the cycles whose radiation lookup returned.
C10_FirstEventOnly ==
    (HasEvent /\ LookupReturned) =>
        /\ safecast_queries = <<<<FirstGeo[2], FirstGeo[1]>>>>
        /\ magnitude = GetMag(events[1])
        /\ depth = GetDepth(FirstGeo)
        /\ ((~FirstMagOk \/ ~FirstDepthOk) /\ LaterEventQualifies
            /\ RadiationSpike(radiation_level)) => EndsNoAlert

====
